---- MODULE Spec2Model ----
(***************************************************************************)
(* A model of isomodder: the Source Acquisition Pipeline (_fetcher.py),    *)
(* the Hash Manifest Codec (_hashing.py), the Boot Menu Text Transformer   *)
(* and the Image Mutation Pipeline (_builder.py) and the image handle      *)
(* (_iso.py).                                                              *)
(*                                                                         *)
(* Python strings are modelled as sequences of one-character strings, so   *)
(* that strip/split/lstrip and the regular expressions are computed as the *)
(* code computes them.                                                     *)
(***************************************************************************)
EXTENDS Integers, Sequences, FiniteSets, TLC

VARIABLES
    \* ---- Source Acquisition Pipeline (BaseIsoFetcher) ----
    fs,          \* the working directory: file key -> [exists, mtime, data]
    now,         \* the clock the filesystem stamps st_mtime from
    pc,          \* position of the fetch call: "idle", "download", "validate"
    tr,          \* state of the two transfers submitted by download_all
    result,      \* how the last finished fetch call ended
    srvSums,     \* the manifest text the server serves
    calls,       \* number of fetch calls made so far
    started,     \* transfers started (urlopen) by the current/last call
    deleted,     \* files unlinked by the current/last call
    pre,         \* the working directory as it was when the call was made
    prevResult,  \* result of the call before the current/last one
    outcome,     \* what _validate of the current/last call did
    \* ---- Hash Manifest Codec (round trip) ----
    given,       \* the records handed to write_hash_file
    written,     \* the text write_hash_file produced
    reread,      \* list(parse_hash_file(written)), or the exception it raised
    cpc,         \* "input", "written", "parsed"; "off" outside SpecCodec
    \* ---- Boot Menu Text Transformer (modify_text) ----
    menu,        \* the text handed to modify_text
    prompt,      \* self._prompt
    mode,        \* unsupported_mode: "None", "EFI" or "MBR"
    escape,      \* escape_semicolon
    modified,    \* the text modify_text returned
    tpc,         \* "input", "done"; "off" outside SpecText
    \* ---- Image Mutation Pipeline (AutoInstallBuilder over an IsoFile) ----
    image,       \* the files of the open image: key -> [exists, data]
    dirs,        \* the directories added to the image
    new_hashes,  \* AutoInstallBuilder._new_hashes
    grub_hash,   \* AutoInstallBuilder._grub_hash
    flags,       \* [prompt, supports_efi, supports_mbr] of the builder
    bpc,         \* "ready", "injected", "patched", "built", "failed", "exited"
    berror,      \* the exception that ended the with-block, or "none"
    phases,      \* the build phases entered, in order
    staged,      \* number of add_from_directory calls made
    temp_dir,    \* IsoFile._temp_dir: "None", "exists" or "removed"
    image_open,  \* the underlying PyCdlib object holds the image
    manifest0    \* /md5sum.txt as it was when the image was opened

fetchVars == <<fs, now, pc, tr, result, srvSums, calls, started, deleted, pre,
               prevResult, outcome>>

codecVars == <<given, written, reread, cpc>>

textVars == <<menu, prompt, mode, escape, modified, tpc>>

buildVars == <<image, dirs, new_hashes, grub_hash, flags, bpc, berror, phases,
               staged, temp_dir, image_open, manifest0>>

vars == <<fetchVars, codecVars, textVars, buildVars>>

\* the variables each component leaves alone
notFetch == <<codecVars, textVars, buildVars>>
notCodec == <<fetchVars, textVars, buildVars>>
notText == <<fetchVars, codecVars, buildVars>>
notBuild == <<fetchVars, codecVars, textVars>>

-----------------------------------------------------------------------------
(* Bounds *)

MaxTime  == 2    \* the clock runs 1..MaxTime
MaxCalls == 2    \* fetch calls per behaviour
IsoChunks == 2   \* chunks the server's image is streamed in
MaxRecords == 2  \* records of a manifest handed to the codec
MaxPathLen == 2  \* characters of a record's path after "./"
MaxPieces == 4   \* pieces a boot-menu text is put together from
MaxManifest == 3 \* records of the image's /md5sum.txt before the build
MaxStage == 2    \* add_from_directory calls before build

-----------------------------------------------------------------------------
(* Python str helpers *)

Min(S) == CHOOSE x \in S : \A y \in S : x <= y
Max(S) == CHOOSE x \in S : \A y \in S : x >= y

\* str.isspace for the characters of the model
IsSpace(c) == c \in {" ", "\t", "\n"}

\* str.strip()
Strip(s) ==
    LET keep == {i \in 1..Len(s) : ~IsSpace(s[i])}
    IN  IF keep = {} THEN <<>> ELSE SubSeq(s, Min(keep), Max(keep))

\* str.lstrip("*")
LStripStar(s) ==
    LET keep == {i \in 1..Len(s) : s[i] # "*"}
    IN  IF keep = {} THEN <<>> ELSE SubSeq(s, Min(keep), Len(s))

\* iteration of a text file: the lines, each with its terminating "\n"
RECURSIVE FileLines(_)
FileLines(text) ==
    IF text = <<>> THEN <<>>
    ELSE LET nl == {i \in 1..Len(text) : text[i] = "\n"}
         IN  IF nl = {} THEN <<text>>
             ELSE <<SubSeq(text, 1, Min(nl))>>
                      \o FileLines(SubSeq(text, Min(nl) + 1, Len(text)))

RECURSIVE Concat(_)
Concat(ss) == IF ss = <<>> THEN <<>> ELSE Head(ss) \o Concat(Tail(ss))

-----------------------------------------------------------------------------
(* Hash Manifest Codec: _hashing.py *)

HashFileRecord(path, digest) == [path |-> path, digest |-> digest]

IndexError == [error |-> "IndexError"]

\* one iteration of parse_hash_file's loop: line.strip().split(maxsplit=1),
\* then HashFileRecord(parts[1].lstrip("*"), parts[0]); parts[1] raises
\* IndexError when the stripped line has fewer than two tokens
parse_line(line) ==
    LET s  == Strip(line)
        ws == {i \in 1..Len(s) : IsSpace(s[i])}
    IN  IF ws = {} THEN IndexError
        ELSE LET first == Min(ws)
                 rest  == {i \in first..Len(s) : ~IsSpace(s[i])}
             IN  HashFileRecord(LStripStar(SubSeq(s, Min(rest), Len(s))),
                                SubSeq(s, 1, first - 1))

\* parse_hash_file: the lazy sequence of per-line results, in file order
parse_hash_file(text) ==
    LET lines == FileLines(text)
    IN  [i \in 1..Len(lines) |-> parse_line(lines[i])]

\* write_line without the line terminator
write_line_unterminated(record) == record.digest \o <<" ", " ">> \o record.path

\* write_hash_file: f"{record.digest}  {record.path}\n" per record
write_line(record) == record.digest \o <<" ", " ">> \o record.path \o <<"\n">>

write_hash_file(records) ==
    Concat([i \in 1..Len(records) |-> write_line(records[i])])

\* canonical_hash_file_path: "." + str(path)
canonical_hash_file_path(path) == <<".">> \o path

-----------------------------------------------------------------------------
(* Source Acquisition Pipeline: _fetcher.py *)

Files == {"iso", "checksum", "validation"}
Transfers == {"iso", "checksum"}

Absent == [exists |-> FALSE, mtime |-> 0, data |-> <<>>]

\* the attributes an instance of BaseIsoFetcher has: those __init__ sets and
\* the properties and methods of the class
InstanceAttrs ==
    {"_working_dir", "_base_url", "_iso_name", "_checksum_name",
     "_iso_path", "_checksum_path", "_validation_path",
     "_clear", "fetch", "_need_download", "_download", "_is_validated",
     "_validate"}

\* self._iso_name, as UbuntuServerIsoFetcher would set it
IsoName == <<"u", ".", "i", "s", "o">>

\* the image the server serves, as the chunks chunk_stream yields
ServerIso == [i \in 1..IsoChunks |-> i]

\* hashlib.md5().hexdigest() over the chunks read: an injective map from the
\* contents of the model to hex strings
HexDigit == <<"0", "1", "2", "3", "4", "5", "6", "7", "8", "9">>
hexdigest(data) == <<"d", HexDigit[(Len(data) % 10) + 1]>>

\* the manifest texts a server may serve
GoodSums  == hexdigest(ServerIso) \o <<" ", "*">> \o IsoName \o <<"\n">>
WrongSums == <<"f", "f", " ", "*">> \o IsoName \o <<"\n">>
OtherSums == <<"f", "f", " ", "*", "o", "\n">>
BlankFirstSums == <<"\n">> \o GoodSums
ServerSums == {GoodSums, WrongSums, OtherSums, BlankFirstSums, <<>>}

\* what a finished transfer of f leaves in the file
ServerData(f) == IF f = "iso" THEN ServerIso ELSE <<srvSums>>

\* the checksum file's text: its chunks joined
SumsText(data) == Concat(data)

\* is_validated with the mtime comparison made strict
is_validated_strict(d) ==
    /\ d["validation"].exists
    /\ d["iso"].exists
    /\ d["validation"].mtime > d["iso"].mtime

\* BaseIsoFetcher._is_validated
is_validated(d) ==
    /\ d["validation"].exists
    /\ d["iso"].exists
    /\ d["validation"].mtime >= d["iso"].mtime

\* BaseIsoFetcher._need_download
need_download(d) == ~d["iso"].exists \/ ~d["checksum"].exists

\* BaseIsoFetcher._clear: delete_if_exist on the checksum file, the marker
\* and the image
clear(d) == [f \in Files |-> Absent]

Unlinked(d) == {f \in Files : d[f].exists}

\* the manifest lookup of _validate: next(h.digest for h in
\* parse_hash_file(f) if h.path == self._iso_name); the generator is consumed
\* only up to the first match
RECURSIVE lookup(_, _)
lookup(parsed, name) ==
    IF parsed = <<>> THEN [error |-> "StopIteration"]
    ELSE IF "error" \in DOMAIN Head(parsed) THEN Head(parsed)
    ELSE IF Head(parsed).path = name THEN [digest |-> Head(parsed).digest]
    ELSE lookup(Tail(parsed), name)

\* evaluating an f-string that reads self.<attr>
AttrRaises(attr) == attr \notin InstanceAttrs

\* _validate without the comparison of the digests: the marker is touched
\* whenever the manifest has an entry for the image
validate_any_entry(d) ==
    LET found == lookup(parse_hash_file(SumsText(d["checksum"].data)), IsoName)
    IN  IF "error" \in DOMAIN found
        THEN IF found.error = "StopIteration" THEN "AttributeError"
             ELSE found.error
        ELSE "touch"

\* BaseIsoFetcher._validate: "touch" (digests agree, marker touched, True),
\* "false" (returns False) or the exception it raises
validate(d) ==
    LET desired == hexdigest(d["iso"].data)
        found   == lookup(parse_hash_file(SumsText(d["checksum"].data)), IsoName)
    IN  IF "error" \in DOMAIN found
        THEN IF found.error = "StopIteration"
             THEN IF AttrRaises("iso_name") THEN "AttributeError"
                  ELSE "IsoModderFatalException"
             ELSE found.error
        ELSE IF desired = found.digest THEN "touch"
        ELSE IF AttrRaises("iso_name") THEN "AttributeError"
        ELSE "false"

Touch(d, f, t) == [d EXCEPT ![f] = [exists |-> TRUE, mtime |-> t,
                                    data |-> IF d[f].exists THEN d[f].data ELSE <<>>]]

NoTransfers == [f \in Transfers |-> "none"]

\* fetch, lines 79-86: return at once when validated; otherwise clear the
\* directory when both files are there, then submit the two transfers
FetchCall ==
    /\ pc = "idle"
    /\ calls < MaxCalls
    /\ calls' = calls + 1
    /\ prevResult' = result
    /\ pre' = fs
    /\ started' = {}
    /\ outcome' = "none"
    /\ IF is_validated(fs)
       THEN /\ result' = "path"
            /\ deleted' = {}
            /\ UNCHANGED <<fs, pc, tr>>
       ELSE /\ result' = "none"
            /\ pc' = "download"
            /\ tr' = [f \in Transfers |-> "queued"]
            /\ IF ~need_download(fs)
               THEN fs' = clear(fs) /\ deleted' = Unlinked(fs)
               ELSE UNCHANGED fs /\ deleted' = {}
    /\ UNCHANGED <<now, srvSums>>
    /\ UNCHANGED notFetch

\* download, lines 16-23: urlopen succeeds and the destination is opened
\* "wb", which creates or truncates it
DlStart(f) ==
    /\ pc = "download"
    /\ tr[f] = "queued"
    /\ tr' = [tr EXCEPT ![f] = "writing"]
    /\ started' = started \cup {f}
    /\ fs' = [fs EXCEPT ![f] = [exists |-> TRUE,
                                mtime |-> IF f = "iso" THEN now ELSE 0,
                                data |-> <<>>]]
    /\ UNCHANGED <<now, pc, result, srvSums, calls, deleted, pre, prevResult, outcome>>
    /\ UNCHANGED notFetch

\* download, line 16: urlopen raises; the destination is not touched
DlConnectFail(f) ==
    /\ pc = "download"
    /\ tr[f] = "queued"
    /\ tr' = [tr EXCEPT ![f] = "failed"]
    /\ started' = started \cup {f}
    /\ UNCHANGED <<fs, now, pc, result, srvSums, calls, deleted, pre, prevResult, outcome>>
    /\ UNCHANGED notFetch

\* download, lines 27-28: one chunk is read and written
DlChunk(f) ==
    /\ pc = "download"
    /\ tr[f] = "writing"
    /\ Len(fs[f].data) < Len(ServerData(f))
    /\ fs' = [fs EXCEPT ![f] = [exists |-> TRUE,
                                mtime |-> IF f = "iso" THEN now ELSE 0,
                                data |-> Append(fs[f].data,
                                                ServerData(f)[Len(fs[f].data) + 1])]]
    /\ UNCHANGED <<now, pc, tr, result, srvSums, calls, started, deleted, pre,
                   prevResult, outcome>>
    /\ UNCHANGED notFetch

\* download, line 27: the read raises; the file keeps what was written
DlReadFail(f) ==
    /\ pc = "download"
    /\ tr[f] = "writing"
    /\ Len(fs[f].data) < Len(ServerData(f))
    /\ tr' = [tr EXCEPT ![f] = "failed"]
    /\ UNCHANGED <<fs, now, pc, result, srvSums, calls, started, deleted, pre,
                   prevResult, outcome>>
    /\ UNCHANGED notFetch

\* download, lines 27-31: the stream ends (read returns b""), after the last
\* chunk or, when the connection is cut without an error, before it
DlEnd(f) ==
    /\ pc = "download"
    /\ tr[f] = "writing"
    /\ tr' = [tr EXCEPT ![f] = "done"]
    /\ UNCHANGED <<fs, now, pc, result, srvSums, calls, started, deleted, pre,
                   prevResult, outcome>>
    /\ UNCHANGED notFetch

\* download_all leaving the pool without waiting: the first failure is raised
\* while the other transfer may still be queued or writing
DlJoinNoWait ==
    /\ pc = "download"
    /\ \/ \A f \in Transfers : tr[f] = "done"
       \/ \E f \in Transfers : tr[f] = "failed"
    /\ IF \E f \in Transfers : tr[f] = "failed"
       THEN pc' = "idle" /\ result' = "URLError"
       ELSE pc' = "validate" /\ UNCHANGED result
    /\ tr' = NoTransfers
    /\ UNCHANGED <<fs, now, srvSums, calls, started, deleted, pre, prevResult, outcome>>
    /\ UNCHANGED notFetch

\* download_all, lines 46-47 and the pool's shutdown(wait=True): every
\* transfer has finished; the first failure is raised
DlJoin ==
    /\ pc = "download"
    /\ \A f \in Transfers : tr[f] \in {"done", "failed"}
    /\ IF \E f \in Transfers : tr[f] = "failed"
       THEN pc' = "idle" /\ result' = "URLError"
       ELSE pc' = "validate" /\ UNCHANGED result
    /\ tr' = NoTransfers
    /\ UNCHANGED <<fs, now, srvSums, calls, started, deleted, pre, prevResult, outcome>>
    /\ UNCHANGED notFetch

\* fetch, lines 91-97
FetchValidate ==
    /\ pc = "validate"
    /\ pc' = "idle"
    /\ outcome' = validate(fs)
    /\ fs' = IF outcome' = "touch" THEN Touch(fs, "validation", now) ELSE fs
    /\ result' = CASE outcome' = "touch" -> "path"
                   [] outcome' = "false" -> "IsoModderFatalException"
                   [] OTHER -> outcome'
    /\ UNCHANGED <<now, tr, srvSums, calls, started, deleted, pre, prevResult>>
    /\ UNCHANGED notFetch

\* the clock advances
Tick ==
    /\ now < MaxTime
    /\ now' = now + 1
    /\ UNCHANGED <<fs, pc, tr, result, srvSums, calls, started, deleted, pre,
                   prevResult, outcome>>
    /\ UNCHANGED notFetch

\* the working directories a call may find (the checksum file's mtime is
\* never read by the code and is kept 0)
InitIso == {Absent} \cup
           {[exists |-> TRUE, mtime |-> t, data |-> SubSeq(ServerIso, 1, k)] :
               t \in {0, 1}, k \in {0, IsoChunks}}
InitSums == {Absent, [exists |-> TRUE, mtime |-> 0, data |-> <<>>]}
InitMarker == {Absent} \cup
              {[exists |-> TRUE, mtime |-> t, data |-> <<>>] : t \in {0, 1}}

FetchInit ==
    /\ fs \in {[iso |-> i, checksum |-> c, validation |-> v] :
                  i \in InitIso, c \in InitSums, v \in InitMarker}
    /\ now = 1
    /\ pc = "idle"
    /\ tr = NoTransfers
    /\ result = "none"
    /\ srvSums \in ServerSums
    /\ calls = 0
    /\ started = {}
    /\ deleted = {}
    /\ pre = fs
    /\ prevResult = "none"
    /\ outcome = "none"

\* the acquisition pipeline when it is not the component under study
FetchOff ==
    /\ fs = [f \in Files |-> Absent]
    /\ now = 1
    /\ pc = "off"
    /\ tr = NoTransfers
    /\ result = "none"
    /\ srvSums = <<>>
    /\ calls = 0
    /\ started = {}
    /\ deleted = {}
    /\ pre = fs
    /\ prevResult = "none"
    /\ outcome = "none"

FetchNext ==
    \/ FetchCall
    \/ \E f \in Transfers : DlStart(f)
    \/ \E f \in Transfers : DlConnectFail(f)
    \/ \E f \in Transfers : DlChunk(f)
    \/ \E f \in Transfers : DlReadFail(f)
    \/ \E f \in Transfers : DlEnd(f)
    \/ DlJoin
    \/ FetchValidate
    \/ Tick

-----------------------------------------------------------------------------
(* The environment of the Source Acquisition Pipeline *)

\* a file that is not the image the server serves nor a part of it
ReplacedIso == Append(ServerIso, 0)

\* after a fetch call downloaded and validated the image and returned its
\* path, the image file is replaced by another file, which carries the
\* modification time t: the time of a fresh write, or an earlier one when an
\* older file is moved in place
ReplaceImage(t) ==
    /\ pc = "idle"
    /\ result = "path"
    /\ outcome = "touch"
    /\ t <= now
    /\ fs["iso"].data # ReplacedIso
    /\ fs' = [fs EXCEPT !["iso"] = [exists |-> TRUE, mtime |-> t,
                                    data |-> ReplacedIso]]
    /\ UNCHANGED <<now, pc, tr, result, srvSums, calls, started, deleted, pre,
                   prevResult, outcome>>
    /\ UNCHANGED notFetch

ReplaceNext ==
    \/ FetchNext
    \/ \E t \in 0..MaxTime : ReplaceImage(t)

\* the process is killed while fetch downloads, or between the download and
\* the validation, or in _validate before line 133: the transfers stop and
\* the files stay as they are
Interrupt ==
    /\ pc \in {"download", "validate"}
    /\ pc' = "idle"
    /\ tr' = NoTransfers
    /\ result' = "interrupted"
    /\ UNCHANGED <<fs, now, srvSums, calls, started, deleted, pre, prevResult,
                   outcome>>
    /\ UNCHANGED notFetch

\* the process is killed in _validate after line 133 touched the marker and
\* before fetch returned
InterruptValidate ==
    /\ pc = "validate"
    /\ validate(fs) = "touch"
    /\ pc' = "idle"
    /\ outcome' = "touch"
    /\ fs' = Touch(fs, "validation", now)
    /\ result' = "interrupted"
    /\ UNCHANGED <<now, tr, srvSums, calls, started, deleted, pre, prevResult>>
    /\ UNCHANGED notFetch

\* the files _clear has unlinked when it is stopped after n of its three
\* calls of delete_if_exist (line 75: checksum, marker, image)
ClearedFirst(n) == IF n = 1 THEN {"checksum"} ELSE {"checksum", "validation"}

\* a fetch call is made and the process is killed inside _clear
ClearInterrupted(n) ==
    /\ pc = "idle"
    /\ calls < MaxCalls
    /\ ~is_validated(fs)
    /\ ~need_download(fs)
    /\ calls' = calls + 1
    /\ prevResult' = result
    /\ pre' = fs
    /\ started' = {}
    /\ outcome' = "none"
    /\ result' = "interrupted"
    /\ fs' = [f \in Files |-> IF f \in ClearedFirst(n) THEN Absent ELSE fs[f]]
    /\ deleted' = Unlinked(fs) \cap ClearedFirst(n)
    /\ UNCHANGED <<now, pc, tr, srvSums>>
    /\ UNCHANGED notFetch

InterruptNext ==
    \/ FetchNext
    \/ Interrupt
    \/ InterruptValidate
    \/ \E n \in {1, 2} : ClearInterrupted(n)

-----------------------------------------------------------------------------
(* Properties of the Source Acquisition Pipeline *)

\* the marker is absent or older than the image
MarkerStale(d) ==
    ~d["validation"].exists \/ d["validation"].mtime < d["iso"].mtime

\* the records the checksum file holds for the image's filename
EntriesFor(d) ==
    LET parsed == parse_hash_file(SumsText(d["checksum"].data))
    IN  {i \in 1..Len(parsed) :
            "path" \in DOMAIN parsed[i] /\ parsed[i].path = IsoName}

NoEntry(d) == EntriesFor(d) = {}

DigestDiffers(d) ==
    /\ EntriesFor(d) # {}
    /\ parse_hash_file(SumsText(d["checksum"].data))[Min(EntriesFor(d))].digest
          # hexdigest(d["iso"].data)

\* the last call downloaded both files and went on to validate
Validated == calls >= 1 /\ pc = "idle" /\ outcome # "none"

\* C1: a fetch call that follows a call that returned the image path starts
\* no transfer, deletes no file, leaves the directory as it found it and
\* returns the path.
C1_IdempotentAcquisition ==
    (calls >= 2 /\ prevResult = "path") =>
        /\ started = {}
        /\ deleted = {}
        /\ fs = pre
        /\ pc = "idle"
        /\ result = "path"

\* a second call was made after a call that downloaded, validated and
\* returned the path
C1_Witness ==
    /\ calls = 2
    /\ prevResult = "path"
    /\ result = "path"
    /\ fs["validation"].mtime = fs["iso"].mtime
    /\ fs["iso"].mtime > 1

\* C2: a call that found the image present and the marker absent or older
\* than the image has unlinked every file it found before any transfer of
\* the fresh download starts, whether or not the manifest file was there.
C2_StaleFilesRemovedBeforeDownload ==
    (/\ calls >= 1
     /\ pre["iso"].exists
     /\ MarkerStale(pre)
     /\ started # {})
        => \A f \in Files : pre[f].exists => f \in deleted

\* C3: when both downloads completed and the manifest has no entry for the
\* image's filename, or its entry's digest differs from the image's, fetch
\* ends by raising IsoModderFatalException.
C3_ValidationErrorKind ==
    (Validated /\ (NoEntry(fs) \/ DigestDiffers(fs)))
        => result = "IsoModderFatalException"

\* C4: when fetch has downloaded an image whose digest differs from the
\* manifest's entry and has failed, the validation marker does not exist,
\* whatever the directory held before the call.
C4_MarkerAbsentAfterFailedValidation ==
    (Validated /\ DigestDiffers(fs)) => ~fs["validation"].exists

\* C11: fetch goes on to validate only from a state in which both transfers
\* have finished without failure; when a transfer failed, fetch raises only
\* from a state in which the other transfer has finished too, and it has run
\* no validation and has left the marker as it was; _validate runs nowhere
\* but after the join.
C11_DownloadJoin ==
    [][/\ (pc = "download" /\ pc' = "validate")
            => \A f \in Transfers : tr[f] = "done"
       /\ (pc = "download" /\ pc' = "idle")
            => /\ \A f \in Transfers : tr[f] \in {"done", "failed"}
               /\ \E f \in Transfers : tr[f] = "failed"
               /\ result' = "URLError"
               /\ outcome' = "none"
               /\ fs'["validation"] = fs["validation"]
       /\ (outcome' # outcome /\ outcome' # "none")
            => (pc = "validate" /\ tr = NoTransfers)
       /\ (fs'["validation"].exists /\ fs'["validation"] # fs["validation"])
            => pc = "validate"]_vars

\* the manifest transfer failed and the call raised after the image transfer
\* had written the whole image; no validation ran and no marker was made
C11_Witness ==
    /\ pc = "idle"
    /\ result = "URLError"
    /\ started = Transfers
    /\ ~pre["iso"].exists
    /\ fs["iso"].data = ServerIso
    /\ ~fs["checksum"].exists
    /\ outcome = "none"
    /\ ~fs["validation"].exists

\* C14: once the image file has been replaced by a different file after a
\* successful validation, a fetch call does not return the path at once,
\* whatever modification time the replacing file carries.
C14_MarkerInvalidation ==
    [][(fs["iso"].data = ReplacedIso /\ calls' = calls + 1)
          => result' # "path"]_vars

\* C15: a fetch call returns the path only when the image on disk is the
\* whole image, the marker exists and the manifest on disk has an entry for
\* the image whose digest is the digest of the image on disk: a partly
\* written image is never returned.
C15_NoTrustInPartialDownloads ==
    (calls >= 1 /\ pc = "idle" /\ result = "path") =>
        /\ fs["iso"].exists
        /\ fs["validation"].exists
        /\ fs["iso"].data = ServerIso
        /\ ~NoEntry(fs)
        /\ ~DigestDiffers(fs)

\* a call was interrupted after the marker was touched, and the next call
\* returned the path of the whole image without a download
C15_Witness ==
    /\ calls = 2
    /\ prevResult = "interrupted"
    /\ result = "path"
    /\ started = {}
    /\ deleted = {}
    /\ fs["iso"].data = ServerIso
    /\ fs["validation"].mtime > 1

\* a call that found a partly written image left by an interrupted call
\* downloaded it again and returned the path
C15_WitnessRetry ==
    /\ calls = 2
    /\ prevResult = "interrupted"
    /\ result = "path"
    /\ started = Transfers
    /\ pre["iso"].exists
    /\ pre["iso"].data = SubSeq(ServerIso, 1, 1)

-----------------------------------------------------------------------------
(* Round trip of the Hash Manifest Codec *)

RECURSIVE SeqsUpTo(_, _)
SeqsUpTo(S, n) ==
    IF n = 0 THEN {<<>>}
    ELSE LET shorter == SeqsUpTo(S, n - 1)
         IN  shorter \cup {Append(q, x) : q \in {r \in shorter : Len(r) = n - 1}, x \in S}

\* a record's path is canonical_hash_file_path of an absolute path inside
\* the image; file names may hold spaces and line breaks
PathChars == {"a", " ", "\n"}
CodecPaths ==
    {canonical_hash_file_path(<<"/">> \o b) :
        b \in SeqsUpTo(PathChars, MaxPathLen) \ {<<>>}}
CodecDigests == {<<"0", "f">>}
CodecRecords == {HashFileRecord(p, d) : p \in CodecPaths, d \in CodecDigests}

\* list(parse_hash_file(fp)): every record, or the exception a line raised
parse_all(t) ==
    LET results == parse_hash_file(t)
    IN  IF \E i \in 1..Len(results) : "error" \in DOMAIN results[i]
        THEN [error |-> "IndexError", records |-> <<>>]
        ELSE [error |-> "none", records |-> results]

Parsed(q) == [error |-> "none", records |-> q]

CodecInit ==
    /\ given \in SeqsUpTo(CodecRecords, MaxRecords)
    /\ written = <<>>
    /\ reread = Parsed(<<>>)
    /\ cpc = "input"

CodecOff ==
    /\ given = <<>>
    /\ written = <<>>
    /\ reread = Parsed(<<>>)
    /\ cpc = "off"

CodecWrite ==
    /\ cpc = "input"
    /\ written' = write_hash_file(given)
    /\ cpc' = "written"
    /\ UNCHANGED <<given, reread>>
    /\ UNCHANGED notCodec

CodecParse ==
    /\ cpc = "written"
    /\ reread' = parse_all(written)
    /\ cpc' = "parsed"
    /\ UNCHANGED <<given, written>>
    /\ UNCHANGED notCodec

CodecNext == CodecWrite \/ CodecParse


\* a path the manifest's line format carries: no line break in it and no
\* whitespace at its end
LineSafe(path) ==
    /\ \A i \in 1..Len(path) : path[i] # "\n"
    /\ ~IsSpace(path[Len(path)])

\* C5 as claimed: parsing what write_hash_file wrote yields the given
\* written, for every sequence of given with a hex digest and a canonical
\* path.
C5_RoundTripAnyPath == cpc = "parsed" => reread = Parsed(given)

\* C5: parsing what write_hash_file wrote yields the given written, in the
\* same number and order, when no record's path holds a line break or ends
\* in whitespace.
C5_RoundTrip ==
    (cpc = "parsed" /\ \A i \in 1..Len(given) : LineSafe(given[i].path))
        => reread = Parsed(given)

\* two different given, one with a space inside its path, came back
C5_Witness ==
    /\ cpc = "parsed"
    /\ Len(given) = 2
    /\ given[1] # given[2]
    /\ given[1].path = <<".", "/", " ", "a">>
    /\ reread = Parsed(given)

-----------------------------------------------------------------------------
(* Boot Menu Text Transformer: modify_text in AutoInstallBuilder._update_grub *)

\* "Install Ubuntu Server"
Anchor ==
    <<"I", "n", "s", "t", "a", "l", "l", " ", "U", "b", "u", "n",
      "t", "u", " ", "S", "e", "r", "v", "e", "r">>

\* "---"
Terminator == <<"-", "-", "-">>

\* self._grub_stamp, the default "AutoInstall"
grub_entry_stamp ==
    <<"A", "u", "t", "o", "I", "n", "s", "t", "a", "l", "l">>

\* f"*AutoInstall with {unsupported_mode} boot not supported by this ISO*"
UnsupportedStamp(unsupported_mode) ==
    <<"*", "A", "u", "t", "o", "I", "n", "s", "t", "a", "l", "l",
      " ", "w", "i", "t", "h", " ">>
        \o (IF unsupported_mode = "EFI" THEN <<"E", "F", "I">>
                                        ELSE <<"M", "B", "R">>) \o
    <<" ", "b", "o", "o", "t", " ", "n", "o", "t", " ", "s", "u",
      "p", "p", "o", "r", "t", "e", "d", " ", "b", "y", " ", "t",
      "h", "i", "s", " ", "I", "S", "O", "*">>

\* stamp: the unsupported-mode warning, or f"({self._grub_stamp})"
Stamp(unsupported_mode) ==
    IF unsupported_mode # "None" THEN UnsupportedStamp(unsupported_mode)
    ELSE <<"(">> \o grub_entry_stamp \o <<")">>

\* autoinstall = "" if self._prompt else "autoinstall"
Autoinstall(p) ==
    IF p THEN <<>>
    ELSE
    <<"a", "u", "t", "o", "i", "n", "s", "t", "a", "l", "l">>

\* escape = "\\" if escape_semicolon else ""
Escape(e) == IF e THEN <<"\\">> ELSE <<>>

\* f"{autoinstall} ds=nocloud{escape};s=/cdrom/nocloud/ ---"; as a re.sub
\* template "\;" is an unknown escape of a non-letter and stays as written
Replacement(p, e) ==
    Autoinstall(p) \o
    <<" ", "d", "s", "=", "n", "o", "c", "l", "o", "u", "d">> \o Escape(e) \o
    <<";", "s", "=", "/", "c", "d", "r", "o", "m", "/", "n", "o",
      "c", "l", "o", "u", "d", "/", " ", "-", "-", "-">>

\* pat occurs in t at position i
OccursAt(t, pat, i) ==
    /\ i >= 1
    /\ i + Len(pat) - 1 <= Len(t)
    /\ SubSeq(t, i, i + Len(pat) - 1) = pat

\* re.sub("Install Ubuntu Server", f"\\g<0> {stamp}", text): every
\* non-overlapping occurrence, leftmost first, is followed by " " + stamp
RECURSIVE sub_anchor(_, _)
sub_anchor(t, stamp) ==
    LET found == {i \in 1..Len(t) : OccursAt(t, Anchor, i)}
    IN  IF found = {} THEN t
        ELSE LET i == Min(found)
             IN  SubSeq(t, 1, i - 1) \o Anchor \o <<" ">> \o stamp
                     \o sub_anchor(SubSeq(t, i + Len(Anchor), Len(t)), stamp)

\* "$" as it is without re.MULTILINE: the end of the text, or just before a
\* newline that ends the text
AtTextEnd(t, p) == p = Len(t) + 1 \/ (p = Len(t) /\ t[p] = "\n")

\* "$" under re.MULTILINE: the end of the text, or just before a newline
AtLineEnd(t, p) == p = Len(t) + 1 \/ t[p] = "\n"

\* the number of characters "\s*$" consumes after a "---" found at i, or -1
\* when "---\s*$" does not match there: "\s*" is greedy and gives back one
\* character at a time until "$" matches
TerminatorTail(t, i) ==
    LET p0   == i + Len(Terminator)
        stop == {q \in p0..Len(t) : ~IsSpace(t[q])}
        run  == IF stop = {} THEN Len(t) + 1 - p0 ELSE Min(stop) - p0
        ks   == {k \in 0..run : AtLineEnd(t, p0 + k)}
    IN  IF ks = {} THEN -1 ELSE Max(ks)

\* re.sub(r"---\s*$", repl, text, flags=re.MULTILINE): the leftmost match,
\* replaced, and the search resumed after it
RECURSIVE sub_terminator(_, _)
sub_terminator(t, repl) ==
    LET found == {i \in 1..Len(t) :
                     OccursAt(t, Terminator, i) /\ TerminatorTail(t, i) >= 0}
    IN  IF found = {} THEN t
        ELSE LET i == Min(found)
                 next == i + Len(Terminator) + TerminatorTail(t, i)
             IN  SubSeq(t, 1, i - 1) \o repl
                     \o sub_terminator(SubSeq(t, next, Len(t)), repl)

\* modify_text(text, unsupported_mode, escape_semicolon), with self._prompt
modify_text(t, unsupported_mode, escape_semicolon, p) ==
    sub_terminator(sub_anchor(t, Stamp(unsupported_mode)),
                   Replacement(p, escape_semicolon))

\* the boot-menu texts: up to MaxPieces pieces, each the product name, a
\* terminator, a dash, a space, a line break or another character
Pieces == {Anchor, Terminator, <<"-">>, <<" ">>, <<"\n">>, <<"x">>}
MenuTexts == {Concat(ps) : ps \in SeqsUpTo(Pieces, MaxPieces)}

\* the argument pairs _update_grub calls modify_text with
ModeArgs == {<<"None", TRUE>>, <<"EFI", TRUE>>, <<"None", FALSE>>, <<"MBR", FALSE>>}

TextInit ==
    /\ menu \in MenuTexts
    /\ prompt \in BOOLEAN
    /\ \E a \in ModeArgs : mode = a[1] /\ escape = a[2]
    /\ modified = <<>>
    /\ tpc = "input"

TextOff ==
    /\ menu = <<>>
    /\ prompt = TRUE
    /\ mode = "None"
    /\ escape = TRUE
    /\ modified = <<>>
    /\ tpc = "off"

ModifyText ==
    /\ tpc = "input"
    /\ modified' = modify_text(menu, mode, escape, prompt)
    /\ tpc' = "done"
    /\ UNCHANGED <<menu, prompt, mode, escape>>
    /\ UNCHANGED notText

TextNext == ModifyText

-----------------------------------------------------------------------------
(* Image handle and Image Mutation Pipeline: _iso.py, _builder.py *)

\* str(AutoInstallBuilder.grub_path)
grub_path ==
    <<"/", "b", "o", "o", "t", "/", "g", "r", "u", "b", "/", "g",
      "r", "u", "b", ".", "c", "f", "g">>

\* str(AutoInstallBuilder.isolinux_path)
isolinux_path ==
    <<"/", "i", "s", "o", "l", "i", "n", "u", "x", "/", "t", "x",
      "t", ".", "c", "f", "g">>

\* the paths add_from_directory stages its file at: iso_path / "f" for the
\* target directories "/extra" and "/more"
extra_path ==
    <<"/", "e", "x", "t", "r", "a", "/", "f">>
more_path ==
    <<"/", "m", "o", "r", "e", "/", "f">>

StageDirs == {"/extra", "/more"}
staged_path(iso_path) == IF iso_path = "/extra" THEN extra_path ELSE more_path
staged_key(iso_path) == IF iso_path = "/extra" THEN "extra" ELSE "more"

ImageFiles == {"md5sum", "grub", "isolinux", "user-data", "meta-data", "extra",
               "more"}

Missing == [exists |-> FALSE, data |-> <<>>]
File(data) == [exists |-> TRUE, data |-> data]

NoRecord == [none |-> TRUE]

\* compute_digest: hashlib.md5 over the chunks of the stream, as an
\* injective map from the texts of the model to whitespace-free strings
HexOf(c) == CASE c = " "  -> "_"
              [] c = "\n" -> "$"
              [] c = "\t" -> "^"
              [] OTHER    -> c
compute_digest(data) == [i \in 1..Len(data) |-> HexOf(data[i])]

\* create_hash_file_record(fp, path)
create_hash_file_record(data, path) ==
    HashFileRecord(canonical_hash_file_path(path), compute_digest(data))

\* _update_hash_file with the old records kept: the fresh record is only
\* appended
reconcile_append_only(old, fresh) == Append(old, fresh)

\* _update_hash_file with both boot menus' old records dropped
reconcile_drop_boot_menus(old, fresh) ==
    LET Keep(r) == /\ r.path # canonical_hash_file_path(grub_path)
                   /\ r.path # canonical_hash_file_path(isolinux_path)
    IN  Append(SelectSeq(old, Keep), fresh)

\* _update_hash_file with the records of the staging calls written too
reconcile_with_new_hashes(old, fresh) ==
    LET Keep(r) == r.path # canonical_hash_file_path(grub_path)
    IN  Append(SelectSeq(old, Keep) \o new_hashes, fresh)

\* _update_hash_file, lines 72-74: itertools.chain((r for r in records if
\* r.path != grub_path_str), [self._grub_hash])
reconcile(old, fresh) ==
    LET grub_path_str == <<".">> \o grub_path
        Keep(r) == r.path # grub_path_str
    IN  Append(SelectSeq(old, Keep), fresh)

\* the modes _update_grub passes for the two menus
EfiMode(f) == IF f.supports_efi THEN "None" ELSE "EFI"
MbrMode(f) == IF f.supports_mbr THEN "None" ELSE "MBR"

\* IsoFile._temp_path: the staging directory is made on first use
temp_path(td) == IF td = "None" THEN "exists" ELSE td

\* the exception of a phase swallowed: the error is noted and build goes on
\* with the next phase
FailSwallowed(kind) ==
    /\ bpc' = CASE bpc = "ready" -> "injected"
                [] bpc = "injected" -> "patched"
                [] OTHER -> "built"
    /\ berror' = kind

\* an exception raised in build or in a staging call propagates out of the
\* with-block of the handle: nothing of build runs after it
Fail(kind) ==
    /\ bpc' = "failed"
    /\ berror' = kind

\* add_from_directory: copy_directory creates the target directory and
\* copies the tree; a source entry that is neither file nor directory raises
AddFromDirectory(tree, iso_path) ==
    /\ bpc = "ready"
    /\ staged < MaxStage
    /\ staged' = staged + 1
    /\ IF iso_path \in dirs
       THEN Fail("PyCdlibInvalidInput") /\ UNCHANGED <<image, dirs, new_hashes>>
       ELSE IF tree = "special"
       THEN /\ Fail("Exception")
            /\ dirs' = dirs \cup {iso_path}
            /\ UNCHANGED <<image, new_hashes>>
       ELSE /\ dirs' = dirs \cup {iso_path}
            /\ image' = [image EXCEPT ![staged_key(iso_path)] = File(<<"z">>)]
            /\ new_hashes' = Append(new_hashes,
                                    create_hash_file_record(<<"z">>,
                                                            staged_path(iso_path)))
            /\ UNCHANGED <<bpc, berror>>
    /\ UNCHANGED <<grub_hash, flags, phases, temp_dir, image_open, manifest0>>
    /\ UNCHANGED notBuild

\* build, line 62: _add_autoinstall
AddAutoinstall ==
    /\ bpc = "ready"
    /\ phases' = Append(phases, "inject")
    /\ IF "/nocloud" \in dirs
       THEN Fail("PyCdlibInvalidInput") /\ UNCHANGED <<image, dirs, temp_dir>>
       ELSE /\ dirs' = dirs \cup {"/nocloud"}
            /\ image' = [image EXCEPT !["user-data"] = File(<<"y">>),
                                      !["meta-data"] = File(<<"\n">>)]
            /\ temp_dir' = temp_path(temp_dir)
            /\ bpc' = "injected"
            /\ UNCHANGED berror
    /\ UNCHANGED <<new_hashes, grub_hash, flags, staged, image_open, manifest0>>
    /\ UNCHANGED notBuild

\* build, line 63: _update_grub
UpdateGrub ==
    /\ bpc = "injected"
    /\ phases' = Append(phases, "patch")
    /\ IF ~image["grub"].exists \/ ~image["isolinux"].exists
       THEN Fail("PyCdlibInvalidInput") /\ UNCHANGED <<image, grub_hash, temp_dir>>
       ELSE LET grub_text == modify_text(image["grub"].data, EfiMode(flags), TRUE,
                                         flags.prompt)
                isolinux_text == modify_text(image["isolinux"].data, MbrMode(flags),
                                             FALSE, flags.prompt)
            IN  /\ grub_hash' = create_hash_file_record(grub_text, grub_path)
                /\ image' = [image EXCEPT !["grub"] = File(grub_text),
                                          !["isolinux"] = File(isolinux_text)]
                /\ temp_dir' = temp_path(temp_dir)
                /\ bpc' = "patched"
                /\ UNCHANGED berror
    /\ UNCHANGED <<dirs, new_hashes, flags, staged, image_open, manifest0>>
    /\ UNCHANGED notBuild

\* build, line 64: _update_hash_file
UpdateHashFile ==
    /\ bpc = "patched"
    /\ phases' = Append(phases, "reconcile")
    /\ IF ~image["md5sum"].exists
       THEN Fail("PyCdlibInvalidInput") /\ UNCHANGED <<image, temp_dir>>
       ELSE IF grub_hash = NoRecord
       THEN Fail("AssertionError") /\ UNCHANGED <<image, temp_dir>>
       ELSE LET old == parse_all(image["md5sum"].data)
            IN  IF old.error # "none"
                THEN Fail(old.error) /\ UNCHANGED <<image, temp_dir>>
                ELSE /\ image' = [image EXCEPT !["md5sum"] =
                                     File(write_hash_file(
                                         reconcile(old.records, grub_hash)))]
                     /\ temp_dir' = temp_path(temp_dir)
                     /\ bpc' = "built"
                     /\ UNCHANGED berror
    /\ UNCHANGED <<dirs, new_hashes, grub_hash, flags, staged, image_open, manifest0>>
    /\ UNCHANGED notBuild

\* IsoFile.__exit__, lines 32-35: close succeeds, then the staging directory
\* is cleaned up if there is one
Exit ==
    /\ bpc \in {"ready", "built", "failed"}
    /\ bpc' = "exited"
    /\ image_open' = FALSE
    /\ temp_dir' = IF temp_dir = "exists" THEN "removed" ELSE temp_dir
    /\ UNCHANGED <<image, dirs, new_hashes, grub_hash, flags, berror, phases,
                   staged, manifest0>>
    /\ UNCHANGED notBuild

\* IsoFile.__exit__, line 32: self._iso.close() raises; the lines after it
\* do not run
ExitCloseRaises ==
    /\ bpc \in {"ready", "built", "failed"}
    /\ bpc' = "exited"
    /\ berror' = "CloseError"
    /\ UNCHANGED <<image, dirs, new_hashes, grub_hash, flags, phases, staged,
                   temp_dir, image_open, manifest0>>
    /\ UNCHANGED notBuild

\* the images a build may be given
ManifestPaths == {canonical_hash_file_path(grub_path),
                  canonical_hash_file_path(isolinux_path),
                  <<".", "/", "x">>}
ManifestRecords == {HashFileRecord(p, <<"0", "f">>) : p \in ManifestPaths}
Manifests == {File(write_hash_file(q)) : q \in SeqsUpTo(ManifestRecords, MaxManifest)}
                 \cup {File(<<"\n">>), Missing}
GrubTexts == {File(Anchor \o <<"\n", "x", " ">> \o Terminator \o <<"\n", "i", "\n">>),
              File(<<"x", " ">> \o Terminator \o <<"\n">>),
              Missing}
IsolinuxTexts == {File(<<"x", " ">> \o Terminator \o <<"\n">>), Missing}

BuildInit ==
    /\ \E m \in Manifests, g \in GrubTexts, l \in IsolinuxTexts :
          image = [k \in ImageFiles |->
                      CASE k = "md5sum" -> m
                        [] k = "grub" -> g
                        [] k = "isolinux" -> l
                        [] OTHER -> Missing]
    /\ dirs \in {{}, {"/nocloud"}}
    /\ new_hashes = <<>>
    /\ grub_hash = NoRecord
    /\ flags \in [prompt : BOOLEAN, supports_efi : BOOLEAN, supports_mbr : BOOLEAN]
    /\ bpc = "ready"
    /\ berror = "none"
    /\ phases = <<>>
    /\ staged = 0
    /\ temp_dir = "None"
    /\ image_open = TRUE
    /\ manifest0 = image["md5sum"]

BuildOff ==
    /\ image = [k \in ImageFiles |-> Missing]
    /\ dirs = {}
    /\ new_hashes = <<>>
    /\ grub_hash = NoRecord
    /\ flags = [prompt |-> TRUE, supports_efi |-> TRUE, supports_mbr |-> TRUE]
    /\ bpc = "off"
    /\ berror = "none"
    /\ phases = <<>>
    /\ staged = 0
    /\ temp_dir = "None"
    /\ image_open = FALSE
    /\ manifest0 = Missing

BuildNext ==
    \/ \E tree \in {"file", "special"}, d \in StageDirs : AddFromDirectory(tree, d)
    \/ AddAutoinstall
    \/ UpdateGrub
    \/ UpdateHashFile
    \/ Exit
    \/ ExitCloseRaises

-----------------------------------------------------------------------------
(* Properties of the Boot Menu Text Transformer *)

NewlinesOf(t) == {i \in 1..Len(t) : t[i] = "\n"}

\* the lines of t as str.split("\n") gives them
NumLines(t) == Cardinality(NewlinesOf(t)) + 1

Line(t, k) ==
    LET nl == NewlinesOf(t)
        nth(n) == CHOOSE i \in nl : Cardinality({j \in nl : j < i}) = n - 1
        from == IF k = 1 THEN 1 ELSE nth(k - 1) + 1
        to   == IF k = NumLines(t) THEN Len(t) ELSE nth(k) - 1
    IN  SubSeq(t, from, to)

RStrip(l) ==
    LET keep == {i \in 1..Len(l) : ~IsSpace(l[i])}
    IN  IF keep = {} THEN <<>> ELSE SubSeq(l, 1, Max(keep))

EndsWith(l, pat) == OccursAt(l, pat, Len(l) - Len(pat) + 1)

Count(t, pat) == Cardinality({i \in 1..Len(t) : OccursAt(t, pat, i)})

\* the line ends in the terminator token, trailing whitespace ignored
IsTerminatorLine(l) == EndsWith(RStrip(l), Terminator)

TerminatorLines(t) == {k \in 1..NumLines(t) : IsTerminatorLine(Line(t, k))}

\* t with every occurrence of pat taken out
RECURSIVE Without(_, _)
Without(t, pat) ==
    LET found == {i \in 1..Len(t) : OccursAt(t, pat, i)}
    IN  IF found = {} THEN t
        ELSE SubSeq(t, 1, Min(found) - 1)
                 \o Without(SubSeq(t, Min(found) + Len(pat), Len(t)), pat)

\* what modify_text inserts: " " + stamp after the product name, and the
\* directive with its flag before the terminator
InsertedStamp == <<" ">> \o Stamp(mode)
InsertedDirective ==
    SubSeq(Replacement(prompt, escape), 1,
           Len(Replacement(prompt, escape)) - Len(Terminator))

\* C8: every line of the input that ends in "---" (trailing whitespace
\* ignored) gets the data-source directive right before its "---", with
\* "autoinstall" in front exactly when prompt is false and the backslash
\* before ";" exactly when escape_semicolon is true; no line of the output
\* ends in "---" without it.
C8_BootLineRewriting ==
    tpc = "done" =>
        LET n == Cardinality(TerminatorLines(menu))
        IN  /\ Count(modified, Replacement(prompt, escape)) = n
            /\ Count(modified, Autoinstall(FALSE)) = IF prompt THEN 0 ELSE n
            /\ Count(modified, Escape(TRUE)) = IF escape THEN n ELSE 0
            /\ \A k \in 1..NumLines(modified) :
                   IsTerminatorLine(Line(modified, k))
                       => EndsWith(Line(modified, k), Replacement(prompt, escape))

\* a text with two terminator lines was rewritten with the flag and the
\* escaped separator
C8_Witness ==
    /\ tpc = "done"
    /\ Cardinality(TerminatorLines(menu)) = 2
    /\ ~prompt
    /\ escape
    /\ Count(modified, Replacement(FALSE, TRUE)) = 2

\* C9: the output differs from the input only by the inserted stamp and the
\* inserted directive: the line breaks are the input's, in number and
\* position, and taking the insertions out gives the input back.
C9_BootTextFrame ==
    tpc = "done" =>
        /\ NumLines(modified) = NumLines(menu)
        /\ Without(Without(modified, InsertedStamp), InsertedDirective) = menu

-----------------------------------------------------------------------------
(* Properties of the Image Mutation Pipeline and the image handle *)

\* the records a manifest text holds for a path, in order
RecordsFor(data, path) ==
    LET HasPath(r) == r.path = path
    IN  SelectSeq(parse_all(data).records, HasPath)

GrubRecords(f) == RecordsFor(f.data, canonical_hash_file_path(grub_path))
IsolinuxRecords(f) == RecordsFor(f.data, canonical_hash_file_path(isolinux_path))

\* C6: after build the manifest in /md5sum.txt holds exactly one record for
\* ./boot/grub/grub.cfg, and its digest is the digest of the bytes the patch
\* phase wrote to that file, however many such records there were before.
C6_EfiEntryAfterBuild ==
    bpc = "built" =>
        /\ parse_all(image["md5sum"].data).error = "none"
        /\ Len(GrubRecords(image["md5sum"])) = 1
        /\ GrubRecords(image["md5sum"])[1].digest
              = compute_digest(image["grub"].data)

\* a build completed on an image whose manifest held two records for the
\* EFI boot menu
C6_Witness ==
    /\ bpc = "built"
    /\ Len(GrubRecords(manifest0)) = 2
    /\ Len(GrubRecords(image["md5sum"])) = 1

\* C7 as claimed: after build the manifest holds no record for
\* ./isolinux/txt.cfg, however many there were before.
C7_NoMbrEntryAfterBuild ==
    bpc = "built" => Len(IsolinuxRecords(image["md5sum"])) = 0

\* C7: after build the manifest holds for ./isolinux/txt.cfg exactly the
\* records it held before the build, unchanged and in order: build adds none
\* and removes none, so there is none when there was none before.
C7_MbrEntriesUntouched ==
    bpc = "built" =>
        IsolinuxRecords(image["md5sum"]) = IsolinuxRecords(manifest0)

\* a build completed on an image whose manifest held two records for the
\* MBR boot menu, and another on one that held none
C7_Witness ==
    /\ bpc = "built"
    /\ Len(IsolinuxRecords(manifest0)) = 2
    /\ Len(IsolinuxRecords(image["md5sum"])) = 2

C7_WitnessNone ==
    /\ bpc = "built"
    /\ Len(IsolinuxRecords(manifest0)) = 0
    /\ Len(GrubRecords(manifest0)) > 0
    /\ Len(IsolinuxRecords(image["md5sum"])) = 0

\* C10: once the handle's scope is left, on whatever path, a staging
\* directory that buffered writes created has been removed and the image
\* released.
C10_StagingReleased ==
    (bpc = "exited" /\ temp_dir # "None") =>
        (temp_dir = "removed" /\ ~image_open)

\* the phases of build, lines 62-64
PhaseOrder == <<"inject", "patch", "reconcile">>

\* C12: build enters its phases in the order inject, patch, reconcile, each
\* at most once; once a phase or a staging call has failed no phase is
\* entered; and when reconcile is entered the patch phase of the same call
\* has captured the record of the EFI boot menu it wrote, so the assertion
\* never fails, however many staging calls came before.
C12_BuildPhaseOrder ==
    [][/\ Len(phases') <= Len(PhaseOrder)
       /\ phases' = SubSeq(PhaseOrder, 1, Len(phases'))
       /\ berror # "none" => phases' = phases
       /\ berror' # "AssertionError"
       /\ (phases' # phases /\ Len(phases') = Len(PhaseOrder))
            => /\ grub_hash # NoRecord
               /\ grub_hash = create_hash_file_record(image["grub"].data,
                                                      grub_path)]_vars

\* a build ran its three phases after two staging calls
C12_Witness ==
    /\ bpc = "built"
    /\ phases = PhaseOrder
    /\ staged = 2
    /\ Len(new_hashes) = 2
    /\ grub_hash # NoRecord

\* the patch phase failed after a staging call and reconcile never ran
C12_WitnessAbort ==
    /\ bpc = "failed"
    /\ phases = <<"inject", "patch">>
    /\ staged >= 1
    /\ grub_hash = NoRecord

\* the records of a manifest text, in order
RecordsOf(f) == parse_all(f.data).records

\* the records of q whose path is not the EFI boot menu's, in order
NotGrub(q) ==
    LET Other(r) == r.path # canonical_hash_file_path(grub_path)
    IN  SelectSeq(q, Other)

\* the canonical paths of the files the inject phase writes
user_data_path ==
    <<".", "/", "n", "o", "c", "l", "o", "u", "d", "/", "u", "s",
      "e", "r", "-", "d", "a", "t", "a">>
meta_data_path ==
    <<".", "/", "n", "o", "c", "l", "o", "u", "d", "/", "m", "e",
      "t", "a", "-", "d", "a", "t", "a">>

\* C13: the manifest the reconcile phase wrote holds the records of the
\* manifest it found whose path is not ./boot/grub/grub.cfg, unchanged and
\* in their order, then the one record captured for the rewritten boot menu,
\* and nothing else: no record of the injected configuration files and none
\* of the records the staging calls accumulated.
C13_ReconciledManifest ==
    bpc = "built" =>
        LET after == RecordsOf(image["md5sum"])
        IN  /\ parse_all(image["md5sum"].data).error = "none"
            /\ after = Append(NotGrub(RecordsOf(manifest0)), grub_hash)
            /\ Len(after) = Len(NotGrub(RecordsOf(manifest0))) + 1
            /\ \A i \in 1..Len(after) :
                   /\ after[i].path \notin {user_data_path, meta_data_path}
                   /\ \A j \in 1..Len(new_hashes) : after[i] # new_hashes[j]

\* a build completed after two staging calls on an image whose manifest held
\* a record for the EFI boot menu between two other records
C13_Witness ==
    /\ bpc = "built"
    /\ Len(new_hashes) = 2
    /\ Len(RecordsOf(manifest0)) = 3
    /\ RecordsOf(manifest0)[2].path = canonical_hash_file_path(grub_path)
    /\ RecordsOf(manifest0)[1].path = <<".", "/", "x">>
    /\ RecordsOf(manifest0)[3].path = canonical_hash_file_path(isolinux_path)
    /\ Len(RecordsOf(image["md5sum"])) = 3
    /\ image["user-data"].exists

-----------------------------------------------------------------------------
(* Specifications: one per component, the others switched off *)

Init == FetchInit /\ CodecOff /\ TextOff /\ BuildOff
Next == FetchNext
Spec == Init /\ [][Next]_vars

SpecReplace == Init /\ [][ReplaceNext]_vars

InitInterrupt == Init /\ ~fs["validation"].exists
SpecInterrupt == InitInterrupt /\ [][InterruptNext]_vars

InitCodec == CodecInit /\ FetchOff /\ TextOff /\ BuildOff
SpecCodec == InitCodec /\ [][CodecNext]_vars

InitText == TextInit /\ FetchOff /\ CodecOff /\ BuildOff
SpecText == InitText /\ [][TextNext]_vars

InitBuild == BuildInit /\ FetchOff /\ CodecOff /\ TextOff
SpecBuild == InitBuild /\ [][BuildNext]_vars

====
